---- MODULE Spec2Model ----
(***************************************************************************)
(* State-machine model of dev-scripts/verify-data.py, the NCPS data        *)
(* integrity verifier: it walks the narinfos of the catalog, resolves      *)
(* each to its nar_files, and checks either the flat compressed file       *)
(* (verify_flat) or the sequence of CDC chunks (verify_cdc) against the    *)
(* sizes and hashes the catalog declares.                                  *)
(*                                                                         *)
(* The catalog and the object store are external and read-only.  A query   *)
(* result is an immutable list that the script walks once, and a storage   *)
(* object is read when the script asks for it; the model therefore draws   *)
(* the number of rows when a query is issued, the value of a column where  *)
(* the script first uses it, and the bytes of an object when it is read.   *)
(* The locals of verify_flat and verify_cdc are kept until the nar_file    *)
(* loop takes its next row, so that a state shows what the last report     *)
(* line was based on.                                                      *)
(*                                                                         *)
(* Text values (hashes, compression names) are sequences of one-character  *)
(* strings, so that prefix stripping and key sharding are the slicing the  *)
(* code does.  A database NULL is the value None.                          *)
(***************************************************************************)
EXTENDS Integers, Sequences, FiniteSets, TLC

\* ------------------------------------------------------------------ bounds

\* The size of the catalog snapshot a run walks: the most rows its queries
\* return in all, over narinfos, narinfo_nar_files and nar_file_chunks.
MaxRows == 4

\* --------------------------------------------------------------- text, bytes

Byte == {0, 1}

\* Byte strings of length at most n.
BytesUpTo(n) == UNION {[1..k -> Byte] : k \in 0..n}

None == <<"None">>

\* Python truthiness of an optional string: None and "" are falsy.
Truthy(s) == s # None /\ s # <<>>

\* Python's s[:n].
Take(s, n) == SubSeq(s, 1, IF n < Len(s) THEN n ELSE Len(s))

\* Python's s[n:].
Drop(s, n) == SubSeq(s, n + 1, Len(s))

Reverse(s) == [i \in 1..Len(s) |-> s[Len(s) + 1 - i]]

\* ---------------------------------------------------------------- hash codec

\* hashlib.sha256(bs).hexdigest(): a collision-free digest, modelled as an
\* injective map from byte strings to hexadecimal text.
Sha256Hex(bs) == <<"a">> \o [i \in 1..Len(bs) |-> IF bs[i] = 0 THEN "0" ELSE "1"]

\* blake3(bs).hexdigest(): a second collision-free digest, with its own image.
Blake3Hex(bs) == <<"b">> \o [i \in 1..Len(bs) |-> IF bs[i] = 0 THEN "0" ELSE "1"]

\* nix-hash --to-base32: the same digest in another alphabet, written in the
\* opposite order.
NixBase32(hex_hash) ==
    Reverse([i \in 1..Len(hex_hash) |->
        CASE hex_hash[i] = "0" -> "y"
          [] hex_hash[i] = "1" -> "z"
          [] OTHER -> "x"])

\* to_nix32: what the call can return, the base-32 text or None when nix-hash
\* is absent or exits with an error.
to_nix32(hex_hash) == {NixBase32(hex_hash), None}

Sha256Prefix == <<"s", "h", "a", "2", "5", "6", ":">>

strip_prefix(h) ==
    IF Truthy(h) /\ Take(h, Len(Sha256Prefix)) = Sha256Prefix
    THEN Drop(h, 7)
    ELSE h

\* hash_matches as it would be if a declared hash that is NULL or empty
\* matched anything.
hash_matches_or_undeclared(computed_hex, expected_db, nix32) ==
    LET expected == strip_prefix(expected_db)
    IN  IF ~Truthy(expected) THEN TRUE
        ELSE IF computed_hex = expected THEN TRUE
        ELSE nix32 # None /\ nix32 = expected

\* hash_matches, given what its call of to_nix32 returned.
hash_matches(computed_hex, expected_db, nix32) ==
    LET expected == strip_prefix(expected_db)
    IN  IF ~Truthy(expected) THEN FALSE
        ELSE IF computed_hex = expected THEN TRUE
        ELSE nix32 # None /\ nix32 = expected

\* ------------------------------------------------------------- storage keys

\* nar_file_key as it would be if it tested the compression for truth only.
nar_file_key_suffix_if_given(hash_, compression) ==
    LET filename ==
            IF Truthy(compression)
            THEN hash_ \o <<".", "n", "a", "r">> \o <<".">> \o compression
            ELSE hash_ \o <<".", "n", "a", "r">>
    IN  <<"store", "nar", Take(hash_, 1), Take(hash_, 2), filename>>

nar_file_key(hash_, compression) ==
    LET filename ==
            IF Truthy(compression) /\ compression \notin {<<>>, <<"n", "o", "n", "e">>}
            THEN hash_ \o <<".", "n", "a", "r">> \o <<".">> \o compression
            ELSE hash_ \o <<".", "n", "a", "r">>
    IN  <<"store", "nar", Take(hash_, 1), Take(hash_, 2), filename>>

chunk_key(hash_) == <<"store", "chunk", Take(hash_, 1), Take(hash_, 2), hash_>>

\* ------------------------------------------------------------ decompression

\* A zstd frame is a magic marker followed by the content; anything else is
\* not a valid stream.
ZstdMagic == <<1>>

ZstdValid(compressed) == Take(compressed, Len(ZstdMagic)) = ZstdMagic

\* dctx.decompress(compressed), for a valid stream.
ZstdDecompress(compressed) == Drop(compressed, Len(ZstdMagic))

\* ------------------------------------------------- catalog and storage values

\* Byte strings whose digests the catalog may declare.
DeclaredTexts == {<<1>>, <<0, 1>>}

\* A hash column: NULL, a SHA-256 in hex, or "sha256:" and the SHA-256 in
\* base 32.
DeclaredHashes ==
    {None} \cup
    UNION {{Sha256Hex(t), Sha256Prefix \o NixBase32(Sha256Hex(t))} : t \in DeclaredTexts}

\* The file_size and nar_size columns.
Sizes == 0..2

\* The hash column of narinfos: every row has its own hash.
NarInfoHash(id) == <<"n">> \o [i \in 1..id |-> "i"]

\* The hash and compression columns of nar_files.
NarFileHashes == {<<"f", "1", "2">>}

Compressions == {None, <<>>, <<"n", "o", "n", "e">>, <<"x", "z">>}

\* The total_chunks column of nar_files.
TotalChunks == {0, 2, 3}

\* Content of a chunk, and the hash column of chunks.
ChunkData == {<<0>>, <<1>>}

ChunkHashes == {Blake3Hex(d) : d \in ChunkData}

\* The size and compressed_size columns of chunks.
ChunkSizes == 1..2

\* What a storage read returns: the bytes of the object, or FileNotFoundError
\* (read_local when the path does not exist, read_s3 on any client error).
ReadResults(objects) ==
    {[found |-> FALSE, bytes |-> <<>>]} \cup
    {[found |-> TRUE, bytes |-> b] : b \in objects}

\* Objects under store/nar: a file whose digest the catalog may declare, or
\* another one.
FlatObjects == DeclaredTexts \cup {<<0>>}

\* Objects under store/chunk: the zstd frame of a chunk content, or bytes that
\* are no zstd stream.
ChunkObjects == {<<0>>} \cup {ZstdMagic \o d : d \in ChunkData}

\* A row of the ordered chunk query, at a given chunk_index.
ChunkRows(index) ==
    [chunk_index : {index}, hash : ChunkHashes, size : ChunkSizes,
     compressed_size : ChunkSizes]

\* The chunk_index column of an ORDER BY chunk_index result of at most n
\* rows: strictly increasing (chunk_index is part of the linkage key), from
\* 0..n, so that a result may start late or have a gap.
RECURSIVE SortedSeq(_)
SortedSeq(S) ==
    IF S = {} THEN <<>>
    ELSE LET m == CHOOSE x \in S : \A y \in S : x <= y
         IN  <<m>> \o SortedSeq(S \ {m})

\* The chunk query as it would be without its ORDER BY clause: the rows come
\* back in any order.
UnorderedChunkIndexLists(n) ==
    UNION {{f \in [1..Cardinality(T) -> T] :
               \A a, b \in 1..Cardinality(T) : a # b => f[a] # f[b]} :
           T \in {U \in SUBSET (0..n) : Cardinality(U) <= n}}

ChunkIndexLists(n) ==
    {SortedSeq(S) : S \in {T \in SUBSET (0..n) : Cardinality(T) <= n}}

\* The ids of a query result of n rows.
Ids(n) == [i \in 1..n |-> i]

NoRow == [id |-> 0]

NoRead == [found |-> FALSE, bytes |-> <<>>]

\* args.limit: not given (Python's None), or the integer given.
NoLimit == [given |-> FALSE, n |-> 0]

\* No summary line has been printed.
NoSummary == [kind |-> "none", errors |-> 0, total |-> 0]

\* No call of to_nix32 has been made.
NotCalled == <<"-">>

\* A hash column of the narinfo row that no verify function has looked at
\* yet; for the nar_size column the mark is -1.
Unread == <<"?">>

\* Python's rows[:n] for an integer n.
SliceTo(seq, n) ==
    IF n >= 0 THEN Take(seq, n)
    ELSE SubSeq(seq, 1, IF Len(seq) + n > 0 THEN Len(seq) + n ELSE 0)

\* The narinfos query as it would be without its WHERE clause.
SelectNarInfosUnfiltered(n, h) == Ids(n)

\* The narinfos query on a catalog of n narinfos: every row when args.filter_hash
\* is None or empty, else the rows WHERE hash = args.filter_hash; in id order.
SelectNarInfos(n, h) ==
    IF Truthy(h)
    THEN SelectSeq(Ids(n), LAMBDA id : NarInfoHash(id) = h)
    ELSE Ids(n)

\* Values of --hash: not given, the empty text, the hash of the second
\* narinfo of the catalog.
HashArgs == {None, <<>>, NarInfoHash(2)}

\* Values of --limit: not given, or an integer (type=int takes any).
LimitArgs == {NoLimit} \cup {[given |-> TRUE, n |-> k] : k \in {-1, 0, 1, 2}}

\* ------------------------------------------------------------------- state

VARIABLES
    pc,            \* where the script is
    filter_hash,   \* args.filter_hash
    limit,         \* args.limit
    storage,       \* state["storage"] as the launcher wrote it: "local" or "s3"
    s3_clients,    \* get_s3_client calls made so far
    cdc_enabled,   \* state["cdc"]
    conn,          \* the catalog connection: "none", "open", "closed"
    narinfos,      \* main: ids of the narinfo rows to verify, in order
    ni_i,          \* main: how many of them the outer loop has taken
    ni,            \* main: the narinfo row bound by the outer loop
    nar_files,     \* main: ids of the nar_file rows linked to ni
    nf_i,          \* main: how many of them the inner loop has taken
    nf,            \* main: the nar_file row bound by the inner loop
    key,           \* verify_flat: the storage key
    raw,           \* verify_flat: the result of the storage read
    file_size_db,  \* verify_flat: declared file size
    file_hash_db,  \* verify_flat: declared file hash
    nar_hash_db,   \* verify_cdc: declared NAR hash
    nar_size_db,   \* verify_cdc: declared NAR size
    chunks,        \* verify_cdc: chunk_index of each row of the chunk query
    chunk_i,       \* verify_cdc: how many chunk rows the loop has taken
    chunk,         \* verify_cdc: the chunk row bound by the loop
    compressed,    \* verify_cdc: the result of the last storage read
    errors,        \* verify_cdc: the error list being built
    sha256,        \* verify_cdc: bytes fed to the running SHA-256 so far
    total_size,    \* verify_cdc: running byte count
    errs,          \* main: the list the last verify_* call returned
    failures,      \* main: the failure counter
    out,           \* the result lines of the last report printed
    passes,        \* [PASS] lines printed so far
    failed_units,  \* reports printed so far that were [FAIL] lines
    summary,       \* the summary line printed, NoSummary before
    exit_code,     \* process exit status, -1 while running
    reads,         \* storage reads issued for the current nar_file
    queries,       \* chunk queries issued for the current nar_file
    hashed,        \* digests computed for the current nar_file
    nix32_res,     \* hash_matches: what its call of to_nix32 returned for the
                   \* current nar_file, NotCalled if it made none
    folded,        \* chunk_index of each chunk fed to sha256, in feeding order
    mis_sized,     \* chunk_index of each chunk whose plaintext length was not
                   \* the declared size
    rows,          \* rows the queries of the run have returned so far
    narinfo_rows,  \* rows of the narinfos table when the run queried it
    written        \* catalog tables and storage keys the run has modified

args_vars == <<filter_hash, limit, storage>>

outer_vars == <<narinfos, ni_i, ni, nar_files>>

flat_vars == <<key, raw, file_size_db, file_hash_db>>

cdc_vars == <<nar_hash_db, nar_size_db, chunks, chunk_i, chunk, compressed,
              errors, sha256, total_size, folded, mis_sized>>

io_vars == <<reads, queries, hashed, nix32_res>>

main_vars == <<errs, failures, out, passes, failed_units>>

db_vars == <<rows, narinfo_rows>>

env_vars == <<written>>

vars == <<pc, args_vars, cdc_enabled, conn, outer_vars, nf_i, nf, flat_vars,
          cdc_vars, main_vars, exit_code, io_vars, db_vars, env_vars,
          s3_clients, summary>>

\* The state once parse_args has returned, for given sets of --hash and
\* --limit values and of storage kinds in the descriptor.
InitWith(hashes, limits, storages) ==
    /\ pc = "load_state"
    /\ filter_hash \in hashes
    /\ limit \in limits
    /\ storage \in storages
    /\ s3_clients = 0
    /\ cdc_enabled = FALSE
    /\ conn = "none"
    /\ narinfos = <<>>
    /\ ni_i = 0
    /\ ni = NoRow
    /\ nar_files = <<>>
    /\ nf_i = 0
    /\ nf = NoRow
    /\ key = <<>>
    /\ raw = NoRead
    /\ file_size_db = 0
    /\ file_hash_db = Unread
    /\ nar_hash_db = Unread
    /\ nar_size_db = -1
    /\ chunks = <<>>
    /\ chunk_i = 0
    /\ chunk = NoRow
    /\ compressed = NoRead
    /\ errors = <<>>
    /\ sha256 = <<>>
    /\ total_size = 0
    /\ errs = <<>>
    /\ failures = 0
    /\ out = <<>>
    /\ passes = 0
    /\ failed_units = 0
    /\ summary = NoSummary
    /\ exit_code = -1
    /\ reads = 0
    /\ queries = 0
    /\ hashed = 0
    /\ nix32_res = NotCalled
    /\ folded = <<>>
    /\ mis_sized = {}
    /\ rows = 0
    /\ narinfo_rows = 0
    /\ written = {}

\* A run without --hash and without --limit, on local storage.
Init == InitWith({None}, {NoLimit}, {"local"})

\* The same run on S3 storage.
InitS3 == InitWith({None}, {NoLimit}, {"s3"})

\* A run with any --hash and any --limit.
InitArgs == InitWith(HashArgs, LimitArgs, {"local"})

\* A run with --hash and without --limit.
InitHash == InitWith({NarInfoHash(2)}, {NoLimit}, {"local"})

\* The file_hash, nar_hash and nar_size columns of a narinfo row that has
\* just been bound to ni, or that the loop has left: nothing has looked at
\* them.
ResetRow ==
    /\ file_hash_db' = Unread
    /\ nar_hash_db' = Unread
    /\ nar_size_db' = -1

\* The locals as they would be if the error list were one list shared by
\* every call of verify_cdc.
ResetLocalsSharingErrors ==
    /\ key' = <<>>
    /\ raw' = NoRead
    /\ file_size_db' = 0
    /\ chunks' = <<>>
    /\ chunk_i' = 0
    /\ chunk' = NoRow
    /\ compressed' = NoRead
    /\ errors' = errors
    /\ sha256' = <<>>
    /\ total_size' = 0
    /\ folded' = <<>>
    /\ mis_sized' = {}
    /\ reads' = 0
    /\ queries' = 0
    /\ hashed' = 0
    /\ nix32_res' = NotCalled

\* The locals of verify_flat and verify_cdc, and the I/O counts, as they are
\* before a nar_file is verified.
ResetLocals ==
    /\ key' = <<>>
    /\ raw' = NoRead
    /\ file_size_db' = 0
    /\ chunks' = <<>>
    /\ chunk_i' = 0
    /\ chunk' = NoRow
    /\ compressed' = NoRead
    /\ errors' = <<>>
    /\ sha256' = <<>>
    /\ total_size' = 0
    /\ folded' = <<>>
    /\ mis_sized' = {}
    /\ reads' = 0
    /\ queries' = 0
    /\ hashed' = 0
    /\ nix32_res' = NotCalled

\* ------------------------------------------------------------ report lines

\* One printed result line: the narinfo and nar_file it is about (nar_file 0:
\* the narinfo has no linked nar_file), the verdict and, for a [FAIL] line
\* printed for a verify_* error, that error.
Line(ni_row, nf_row, verdict, reason) ==
    [ni |-> ni_row.id, nf |-> nf_row.id, verdict |-> verdict, reason |-> reason]

\* Whether a report has a [FAIL] line, as a count of reports: 1 or 0.
FailLinesPrinted(lines) ==
    IF \E i \in 1..Len(lines) : lines[i].verdict = "FAIL" THEN 1 ELSE 0

\* main as it would be if it counted a failure for each reason.
FailuresPerReason(result) == Len(result)

\* if errs: ... failures += 1 -- what a verify_* result adds to failures.
FailuresAdded(result) == IF result # <<>> THEN 1 ELSE 0

\* main's handling of a verify_* result: one [FAIL] line per error and one
\* increment of failures, or one [PASS] line.
Report(result) ==
    /\ errs' = result
    /\ out' = IF result # <<>>
              THEN [i \in 1..Len(result) |-> Line(ni, nf, "FAIL", result[i])]
              ELSE <<Line(ni, nf, "PASS", [kind |-> "none"])>>
    /\ failures' = failures + FailuresAdded(result)
    /\ passes' = IF result # <<>> THEN passes ELSE passes + 1
    /\ failed_units' = failed_units + FailLinesPrinted(out')

\* main's structural [FAIL] line: printed and counted without a verify_* call.
ReportStructural(ni_row, nf_row, why) ==
    /\ errs' = <<>>
    /\ out' = <<Line(ni_row, nf_row, "FAIL", [kind |-> why])>>
    /\ failures' = failures + 1
    /\ passes' = passes
    /\ failed_units' = failed_units + FailLinesPrinted(out')

\* Whether hash_matches gets as far as its call of to_nix32.
ConverterCalled(computed_hex, expected_db) ==
    /\ Truthy(strip_prefix(expected_db))
    /\ computed_hex # strip_prefix(expected_db)

\* The calls as they would be if a read rewrote the object it read.
EffectOfRewritingRead(io) == IF io.call = "select" THEN {} ELSE {io.target}

\* What a call to the catalog or to storage modifies there.  The script's
\* statements are SELECTs, read_local opens its file "rb" and read_s3 calls
\* get_object: none of them modifies its target.
Effect(io) == IF io.call \in {"select", "read"} THEN {} ELSE {io.target}

\* s3 = get_s3_client(state["s3"]) if storage == "s3" else None: the clients
\* one call of verify_flat or verify_cdc creates.
ClientsCreated(kind) == IF kind = "s3" THEN 1 ELSE 0

\* ------------------------------------------------------------------- main

\* The narinfo loop as it would be with a break after the first failure.
NarInfoLoopStopsOnFailure(taken, ni_rows, failed) ==
    taken < Len(ni_rows) /\ failed = 0

\* for ni in narinfos: whether the loop takes another row.
NarInfoLoopRuns(taken, ni_rows, failed) == taken < Len(ni_rows)

\* The nar_file loop as it would be with a break after a nar_file that
\* failed.
NarFileLoopStopsOnFailure(taken, files, lines) ==
    /\ taken < Len(files)
    /\ taken = 0 \/ \A i \in 1..Len(lines) : lines[i].verdict # "FAIL"

\* for nf in nar_files: whether the loop takes another row.
NarFileLoopRuns(taken, files, lines) == taken < Len(files)

\* main as it would be without the check for a narinfo with no nar_file.
LinkedFileAssumed(files) == FALSE

\* if not nar_files: the narinfo has no linked nar_file.
NoLinkedFile(files) == files = <<>>

\* The nar_file loop as it would be with the second structural check only.
ModeMismatchFlatOnly(cdc, total_chunks) == ~cdc /\ total_chunks > 0

\* The nar_file loop as it would be with the first structural check only.
ModeMismatchCdcOnly(cdc, total_chunks) == cdc /\ total_chunks = 0

\* The two structural checks of the nar_file loop: with CDC enabled a
\* nar_file must have chunks, with CDC disabled it must have none.
ModeMismatch(cdc, total_chunks) ==
    IF cdc THEN total_chunks = 0 ELSE total_chunks > 0

\* The summary as it would be without its sys.exit(1).
ExitStatusIgnoresFailures(failed) == 0

\* The summary line: SUCCESS with the number of narinfos, or FAILURE with the
\* failure counter and the number of narinfos.
SummaryLine(failed, total) ==
    IF failed = 0
    THEN [kind |-> "SUCCESS", errors |-> 0, total |-> total]
    ELSE [kind |-> "FAILURE", errors |-> failed, total |-> total]

\* The exit status the summary ends the script with.
ExitStatus(failed) == IF failed = 0 THEN 0 ELSE 1

\* ------------------------------------------------------------ verify_flat

\* verify_flat as it would be if it went on after a failed read, with no
\* bytes.
verify_flat_missing_goes_on(flat_key, object, size_db, hash_db, nix32) ==
    (IF ~object.found
     THEN <<[kind |-> "missing", key |-> flat_key]>>
     ELSE <<>>)
    \o
    (IF Len(object.bytes) # size_db
     THEN <<[kind |-> "file_size", got |-> Len(object.bytes), want |-> size_db]>>
     ELSE <<>>)
    \o
    (IF ~hash_matches(Sha256Hex(object.bytes), hash_db, nix32)
     THEN <<[kind |-> "file_hash", got |-> Sha256Hex(object.bytes),
             want |-> strip_prefix(hash_db)]>>
     ELSE <<>>)

\* verify_flat as it would be if it returned at the size mismatch.
verify_flat_size_first(flat_key, object, size_db, hash_db, nix32) ==
    IF ~object.found
    THEN <<[kind |-> "missing", key |-> flat_key]>>
    ELSE IF Len(object.bytes) # size_db
    THEN <<[kind |-> "file_size", got |-> Len(object.bytes), want |-> size_db]>>
    ELSE IF ~hash_matches(Sha256Hex(object.bytes), hash_db, nix32)
    THEN <<[kind |-> "file_hash", got |-> Sha256Hex(object.bytes),
            want |-> strip_prefix(hash_db)]>>
    ELSE <<>>

\* The error list verify_flat returns for the result of reading the object at
\* flat_key, given what its call of to_nix32 returned.
verify_flat(flat_key, object, size_db, hash_db, nix32) ==
    IF ~object.found
    THEN <<[kind |-> "missing", key |-> flat_key]>>
    ELSE (IF Len(object.bytes) # size_db
          THEN <<[kind |-> "file_size", got |-> Len(object.bytes), want |-> size_db]>>
          ELSE <<>>)
         \o
         (IF ~hash_matches(Sha256Hex(object.bytes), hash_db, nix32)
          THEN <<[kind |-> "file_hash", got |-> Sha256Hex(object.bytes),
                  want |-> strip_prefix(hash_db)]>>
          ELSE <<>>)

\* ------------------------------------------------------------- verify_cdc

\* The loop body as it would be with the first continue only: bytes that are
\* no zstd stream are handled as if they had been decompressed.
ChunkSkippedOnlyIfMissing(row, object) == ~object.found

\* The loop body's two continue statements: the chunk could not be read, or
\* its bytes are not a zstd stream.
ChunkSkipped(row, object) == ~object.found \/ ~ZstdValid(object.bytes)

\* The loop body as it would be without the check of the decompressed
\* length.
ChunkErrorsSizeUnchecked(row, object) ==
    LET name == Take(row.hash, 12)
        data == ZstdDecompress(object.bytes)
    IN  IF ~object.found
        THEN <<[kind |-> "missing", chunk |-> name, key |-> chunk_key(row.hash)]>>
        ELSE (IF Len(object.bytes) # row.compressed_size
              THEN <<[kind |-> "compressed_size", chunk |-> name,
                      got |-> Len(object.bytes), want |-> row.compressed_size]>>
              ELSE <<>>)
             \o
             (IF ~ZstdValid(object.bytes)
              THEN <<[kind |-> "zstd", chunk |-> name]>>
              ELSE IF Blake3Hex(data) # row.hash
                   THEN <<[kind |-> "blake3", chunk |-> name,
                           got |-> Take(Blake3Hex(data), 12)]>>
                   ELSE <<>>)

\* The errors one pass of the chunk loop appends for a row and the result of
\* reading its object.
ChunkErrors(row, object) ==
    LET name == Take(row.hash, 12)
        data == ZstdDecompress(object.bytes)
    IN  IF ~object.found
        THEN <<[kind |-> "missing", chunk |-> name, key |-> chunk_key(row.hash)]>>
        ELSE (IF Len(object.bytes) # row.compressed_size
              THEN <<[kind |-> "compressed_size", chunk |-> name,
                      got |-> Len(object.bytes), want |-> row.compressed_size]>>
              ELSE <<>>)
             \o
             (IF ~ZstdValid(object.bytes)
              THEN <<[kind |-> "zstd", chunk |-> name]>>
              ELSE (IF Len(data) # row.size
                    THEN <<[kind |-> "size", chunk |-> name,
                            got |-> Len(data), want |-> row.size]>>
                    ELSE <<>>)
                   \o
                   (IF Blake3Hex(data) # row.hash
                    THEN <<[kind |-> "blake3", chunk |-> name,
                            got |-> Take(Blake3Hex(data), 12)]>>
                    ELSE <<>>))

\* verify_cdc as it would be without the check for an empty chunk query.
ChunksAssumed(chunk_rows) == FALSE

\* if not chunks: the chunk query returned no row.
NoChunks(chunk_rows) == chunk_rows = <<>>

\* The chunk loop as it would be with a break after the first failed chunk.
ChunkLoopStopsOnError(taken, chunk_rows, errors_so_far) ==
    taken < Len(chunk_rows) /\ errors_so_far = <<>>

\* for chunk in chunks: whether the loop takes another row.
ChunkLoopRuns(taken, chunk_rows, errors_so_far) == taken < Len(chunk_rows)

\* verify_cdc as it would be without its early return.
WholeNarNeverSkipped(errors_so_far) == FALSE

\* if errors: return errors -- whether the whole-object checks are skipped.
WholeNarSkipped(errors_so_far) == errors_so_far # <<>>

\* The whole-object checks after the chunk loop, given what the call of
\* to_nix32 returned.
WholeNarErrors(size, hex, size_db, hash_db, nix32) ==
    (IF size # size_db
     THEN <<[kind |-> "nar_size", got |-> size, want |-> size_db]>>
     ELSE <<>>)
    \o
    (IF ~hash_matches(hex, hash_db, nix32)
     THEN <<[kind |-> "nar_hash", got |-> hex, want |-> strip_prefix(hash_db)]>>
     ELSE <<>>)

\* ------------------------------------------------------------------ actions

\* load_state, and main's reading of state["cdc"]: the descriptor is read, or
\* it is absent or not JSON and the script exits with status 1.
LoadState ==
    /\ pc = "load_state"
    /\ \/ /\ cdc_enabled' \in BOOLEAN
          /\ pc' = "connect_db"
          /\ UNCHANGED <<exit_code, summary>>
       \/ /\ pc' = "exit"
          /\ exit_code' = 1
          /\ UNCHANGED summary
          /\ UNCHANGED cdc_enabled
    /\ UNCHANGED <<s3_clients, env_vars, db_vars, args_vars, conn, outer_vars, nf_i, nf, flat_vars, cdc_vars,
                   main_vars, io_vars>>

\* connect_db as it would be if it caught a failed connect and returned no
\* connection.
ConnectDbIgnoringFailure ==
    /\ pc = "connect_db"
    /\ conn' \in {"open", "none"}
    /\ pc' = "fetch_narinfos"
    /\ UNCHANGED <<s3_clients, env_vars, db_vars, args_vars, cdc_enabled,
                   outer_vars, nf_i, nf, flat_vars, cdc_vars, main_vars,
                   io_vars, exit_code, summary>>

\* connect_db: a connection; or an unknown db kind, which ends the script
\* with sys.exit(1); or a connect call that raises, which nothing catches
\* and which ends the script with a traceback and status 1.
ConnectDb ==
    /\ pc = "connect_db"
    /\ \/ /\ conn' = "open"
          /\ pc' = "fetch_narinfos"
          /\ UNCHANGED <<exit_code, summary>>
       \/ /\ pc' = "exit"
          /\ exit_code' = 1
          /\ UNCHANGED summary
          /\ UNCHANGED conn
       \/ /\ pc' = "traceback"
          /\ exit_code' = 1
          /\ UNCHANGED summary
          /\ UNCHANGED conn
    /\ UNCHANGED <<s3_clients, env_vars, db_vars, args_vars, cdc_enabled, outer_vars, nf_i, nf, flat_vars,
                   cdc_vars, main_vars, io_vars>>

\* main, the narinfos query and the --limit slice.
FetchNarInfos ==
    /\ pc = "fetch_narinfos"
    /\ \E n \in 0..(MaxRows - rows) :
          LET fetched == SelectNarInfos(n, filter_hash)
          IN  /\ narinfos' = IF limit.given /\ limit.n # 0
                             THEN SliceTo(fetched, limit.n)
                             ELSE fetched
              /\ rows' = rows + Len(fetched)
              /\ narinfo_rows' = n
    /\ ni_i' = 0
    /\ failures' = 0
    /\ pc' = "ni_loop"
    /\ UNCHANGED <<s3_clients, args_vars, cdc_enabled, conn, ni, nar_files, nf_i, nf,
                   flat_vars, cdc_vars, errs, out, passes, failed_units, exit_code, summary, io_vars>>
    /\ written' = written \cup Effect([call |-> "select", target |-> "narinfos"])

\* main, the head of the narinfo loop: bind the next row, query its
\* nar_files, and report a narinfo that has none.
BeginNarInfo ==
    /\ pc = "ni_loop"
    /\ NarInfoLoopRuns(ni_i, narinfos, failures)
    /\ ni' = [id |-> narinfos[ni_i + 1],
              hash |-> NarInfoHash(narinfos[ni_i + 1])]
    /\ \E n \in 0..(MaxRows - rows) :
          /\ nar_files' = Ids(n)
          /\ rows' = rows + n
    /\ UNCHANGED narinfo_rows
    /\ nf_i' = 0
    /\ nf' = NoRow
    /\ ResetRow
    /\ ResetLocals
    /\ IF NoLinkedFile(nar_files')
       THEN /\ ReportStructural(ni', NoRow, "no_nar_file")
            /\ ni_i' = ni_i + 1
            /\ pc' = "ni_loop"
       ELSE /\ UNCHANGED <<main_vars, ni_i>>
            /\ pc' = "nf_loop"
    /\ UNCHANGED <<s3_clients, args_vars, cdc_enabled, conn, narinfos, exit_code, summary>>
    /\ written' = written \cup Effect([call |-> "select", target |-> "nar_files"])

\* main, the head of the nar_file loop: bind the next row and compare its
\* total_chunks with the chunking mode.
BeginNarFile ==
    /\ pc = "nf_loop"
    /\ NarFileLoopRuns(nf_i, nar_files, out)
    /\ \E n \in TotalChunks : nf' = [id |-> nar_files[nf_i + 1], total_chunks |-> n]
    /\ nf_i' = nf_i + 1
    /\ ResetLocals
    /\ UNCHANGED <<file_hash_db, nar_hash_db, nar_size_db>>
    /\ IF ModeMismatch(cdc_enabled, nf'.total_chunks)
       THEN /\ ReportStructural(ni, nf', IF cdc_enabled THEN "cdc_total_chunks_0"
                                         ELSE "flat_total_chunks")
            /\ pc' = "nf_loop"
       ELSE /\ UNCHANGED main_vars
            /\ pc' = IF cdc_enabled THEN "verify_cdc" ELSE "verify_flat"
    /\ UNCHANGED <<s3_clients, env_vars, db_vars, args_vars, cdc_enabled, conn, outer_vars, exit_code, summary>>

\* main, the end of one narinfo's nar_file loop.
EndNarInfo ==
    /\ pc = "nf_loop"
    /\ ~NarFileLoopRuns(nf_i, nar_files, out)
    /\ ni_i' = ni_i + 1
    /\ nf' = NoRow
    /\ ResetRow
    /\ ResetLocals
    /\ errs' = <<>>
    /\ out' = <<>>
    /\ pc' = "ni_loop"
    /\ UNCHANGED <<s3_clients, env_vars, db_vars, args_vars, cdc_enabled, conn, narinfos, ni, nar_files,
                   nf_i, failures, passes, failed_units, exit_code, summary>>

\* verify_flat and main's report of its result.
VerifyFlat ==
    /\ pc = "verify_flat"
    /\ \E h \in NarFileHashes, c \in Compressions :
          nf' = [id |-> nf.id, total_chunks |-> nf.total_chunks,
                 hash |-> h, compression |-> c]
    /\ key' = nar_file_key(nf'.hash, IF Truthy(nf'.compression)
                                     THEN nf'.compression ELSE <<>>)
    /\ raw' \in ReadResults(FlatObjects)
    /\ reads' = reads + 1
    /\ IF raw'.found
       THEN /\ file_size_db' \in Sizes
            /\ file_hash_db' \in (IF file_hash_db = Unread THEN DeclaredHashes
                                   ELSE {file_hash_db})
            /\ hashed' = hashed + 1
       ELSE UNCHANGED <<file_size_db, file_hash_db, hashed>>
    /\ \E n \in to_nix32(Sha256Hex(raw'.bytes)) :
          /\ nix32_res' = IF /\ raw'.found
                             /\ ConverterCalled(Sha256Hex(raw'.bytes), file_hash_db')
                          THEN n ELSE NotCalled
          /\ Report(verify_flat(key', raw', file_size_db', file_hash_db', n))
    /\ pc' = "nf_loop"
    /\ UNCHANGED <<db_vars, args_vars, cdc_enabled, conn, outer_vars, nf_i,
                   cdc_vars, exit_code, summary, queries>>
    /\ written' = written \cup Effect([call |-> "read", target |-> key'])
    /\ s3_clients' = s3_clients + ClientsCreated(storage)

\* verify_cdc, the ordered chunk query; an empty result is returned to main
\* as the only error and reported.
FetchChunks ==
    /\ pc = "verify_cdc"
    /\ chunks' \in ChunkIndexLists(MaxRows - rows)
    /\ rows' = rows + Len(chunks')
    /\ UNCHANGED narinfo_rows
    /\ queries' = queries + 1
    /\ IF NoChunks(chunks')
       THEN /\ Report(<<[kind |-> "no_chunks"]>>)
            /\ pc' = "nf_loop"
       ELSE /\ UNCHANGED main_vars
            /\ pc' = "chunk_loop"
    /\ UNCHANGED <<args_vars, cdc_enabled, conn, outer_vars, nf_i, nf,
                   flat_vars, nar_hash_db, nar_size_db, chunk_i, chunk,
                   compressed, errors, sha256, total_size, folded, mis_sized,
                   exit_code, summary,
                   reads, hashed, nix32_res>>
    /\ written' = written \cup Effect([call |-> "select", target |-> "nar_file_chunks"])
    /\ s3_clients' = IF NoChunks(chunks') THEN s3_clients
                   ELSE s3_clients + ClientsCreated(storage)

\* verify_cdc, one pass of the chunk loop.
ProcessChunk ==
    /\ pc = "chunk_loop"
    /\ ChunkLoopRuns(chunk_i, chunks, errors)
    /\ chunk' \in ChunkRows(chunks[chunk_i + 1])
    /\ compressed' \in ReadResults(ChunkObjects)
    /\ chunk_i' = chunk_i + 1
    /\ reads' = reads + 1
    /\ errors' = errors \o ChunkErrors(chunk', compressed')
    /\ IF ChunkSkipped(chunk', compressed')
       THEN UNCHANGED <<sha256, total_size, folded, hashed, mis_sized>>
       ELSE /\ sha256' = sha256 \o ZstdDecompress(compressed'.bytes)
            /\ total_size' = total_size + Len(ZstdDecompress(compressed'.bytes))
            /\ folded' = Append(folded, chunk'.chunk_index)
            /\ mis_sized' =
                  IF Len(ZstdDecompress(compressed'.bytes)) # chunk'.size
                  THEN mis_sized \cup {chunk'.chunk_index}
                  ELSE mis_sized
            /\ hashed' = hashed + 1
    /\ UNCHANGED <<s3_clients, db_vars, pc, args_vars, cdc_enabled, conn, outer_vars, nf_i, nf,
                   flat_vars, nar_hash_db, nar_size_db, chunks, main_vars,
                   exit_code, summary, queries, nix32_res>>
    /\ written' = written \cup Effect([call |-> "read", target |-> chunk_key(chunk'.hash)])

\* verify_cdc after the loop, and main's report of its result.
FinishCdc ==
    /\ pc = "chunk_loop"
    /\ ~ChunkLoopRuns(chunk_i, chunks, errors)
    /\ IF WholeNarSkipped(errors)
       THEN /\ Report(errors)
            /\ UNCHANGED <<nar_hash_db, nar_size_db, hashed, nix32_res>>
       ELSE /\ nar_size_db' \in (IF nar_size_db = -1 THEN Sizes ELSE {nar_size_db})
            /\ nar_hash_db' \in (IF nar_hash_db = Unread THEN DeclaredHashes
                                  ELSE {nar_hash_db})
            /\ hashed' = hashed + 1
            /\ \E n \in to_nix32(Sha256Hex(sha256)) :
                  /\ nix32_res' = IF ConverterCalled(Sha256Hex(sha256), nar_hash_db')
                              THEN n ELSE NotCalled
                  /\ Report(errors \o WholeNarErrors(total_size, Sha256Hex(sha256),
                                                      nar_size_db', nar_hash_db', n))
    /\ pc' = "nf_loop"
    /\ UNCHANGED <<s3_clients, env_vars, db_vars, args_vars, cdc_enabled, conn, outer_vars, nf_i, nf,
                   flat_vars, chunks, chunk_i, chunk, compressed, errors,
                   sha256, total_size, folded, mis_sized, exit_code, summary, reads,
                   queries>>

\* main, the summary and the finally clause.
Summary ==
    /\ pc = "ni_loop"
    /\ ~NarInfoLoopRuns(ni_i, narinfos, failures)
    /\ exit_code' = ExitStatus(failures)
    /\ summary' = SummaryLine(failures, Len(narinfos))
    /\ conn' = "closed"
    /\ pc' = "exit"
    /\ UNCHANGED <<s3_clients, env_vars, db_vars, args_vars, cdc_enabled, outer_vars, nf_i, nf, flat_vars,
                   cdc_vars, main_vars, io_vars>>

\* An exception nothing catches, raised inside main's try block by a catalog
\* query, a storage read other than a missing object, or the start of
\* nix-hash: the finally clause closes the connection and the interpreter
\* ends the script with a traceback and status 1.  Its locals are gone.
Crash ==
    /\ \/ pc \in {"fetch_narinfos", "verify_flat", "verify_cdc", "chunk_loop"}
       \/ pc = "ni_loop" /\ NarInfoLoopRuns(ni_i, narinfos, failures)
    /\ pc' = "traceback"
    /\ exit_code' = 1
    /\ UNCHANGED summary
    /\ conn' = "closed"
    /\ nf' = NoRow
    /\ ResetRow
    /\ ResetLocals
    /\ UNCHANGED <<s3_clients, env_vars, db_vars, args_vars, cdc_enabled, outer_vars, nf_i, main_vars>>

Next ==
    \/ LoadState
    \/ ConnectDb
    \/ FetchNarInfos
    \/ BeginNarInfo
    \/ BeginNarFile
    \/ EndNarInfo
    \/ VerifyFlat
    \/ FetchChunks
    \/ ProcessChunk
    \/ FinishCdc
    \/ Summary
    \/ Crash

Spec == Init /\ [][Next]_vars

\* The script is one sequential process whose every call returns: it keeps
\* taking steps until it has ended.
FairSpec == Spec /\ WF_vars(Next)

SpecS3 == InitS3 /\ [][Next]_vars

SpecArgs == InitArgs /\ [][Next]_vars

SpecHash == InitHash /\ [][Next]_vars

\* --------------------------------------------------------------- properties

\* main has printed the result of the nar_file bound to nf and has not yet
\* taken the next row.
NarFileReported == pc = "nf_loop" /\ nf_i > 0

\* verify_cdc was called for nf and has returned.
CdcReturned == NarFileReported /\ queries = 1

\* verify_flat was called for nf and has returned.
FlatReturned == NarFileReported /\ reads = 1 /\ queries = 0

\* The last report is a [PASS] line, or [FAIL] lines only.
Passed == out # <<>> /\ \A i \in 1..Len(out) : out[i].verdict = "PASS"

Failed == out # <<>> /\ \A i \in 1..Len(out) : out[i].verdict = "FAIL"

\* The error list of the chunk loop holds an entry of this kind for the chunk
\* row last taken.
Recorded(kind) ==
    \E i \in 1..Len(errors) :
        errors[i].kind = kind /\ errors[i].chunk = Take(chunk.hash, 12)

\* C1: in verify_cdc every failed check on the chunk last taken (object
\* missing, compressed length, zstd, decompressed length, BLAKE3) has its
\* entry in the error list, and when verify_cdc returns every row of the chunk
\* query has been taken and read, whether or not earlier chunks failed.
C1_ChunkFailureRecordedLoopGoesOn ==
    /\ (pc = "chunk_loop" /\ chunk_i > 0) =>
          /\ ~compressed.found => Recorded("missing")
          /\ compressed.found =>
                /\ Len(compressed.bytes) # chunk.compressed_size
                      => Recorded("compressed_size")
                /\ ~ZstdValid(compressed.bytes) => Recorded("zstd")
                /\ ZstdValid(compressed.bytes) =>
                      /\ Len(ZstdDecompress(compressed.bytes)) # chunk.size
                            => Recorded("size")
                      /\ Blake3Hex(ZstdDecompress(compressed.bytes)) # chunk.hash
                            => Recorded("blake3")
    /\ (CdcReturned /\ chunks # <<>>) =>
          chunk_i = Len(chunks) /\ reads = Len(chunks)

\* The first of two chunks was missing and the second was still read,
\* decompressed and fed to the digest.
C1_Witness ==
    /\ CdcReturned
    /\ Len(chunks) = 2
    /\ errors # <<>>
    /\ errors[1].kind = "missing"
    /\ folded = <<chunks[2]>>

\* C2: when verify_cdc returns with at least one per-chunk error the entry is
\* reported [FAIL] with exactly the per-chunk errors: no nar_size or nar_hash
\* reason is reported, the declared nar_size and nar_hash are not consulted
\* and no digest of the whole object is finalised.
C2_ChunkErrorSkipsWholeObjectChecks ==
    (CdcReturned /\ errors # <<>>) =>
        /\ Failed
        /\ errs = errors
        /\ \A i \in 1..Len(out) : out[i].reason.kind \notin {"nar_size", "nar_hash"}
        /\ hashed = Len(folded)

\* One chunk verified and one did not, so that a whole-object check would
\* have had bytes to work on.
C2_Witness ==
    /\ CdcReturned
    /\ Len(chunks) = 2
    /\ Len(folded) = 1
    /\ errors # <<>>
    /\ Failed

\* A declared hash names this digest: the hex digest or its nix base-32 form,
\* with or without the sha256: prefix.
DigestDeclared(hex, declared) ==
    declared \in {hex, Sha256Prefix \o hex,
                  NixBase32(hex), Sha256Prefix \o NixBase32(hex)}

\* C3: a chunked nar_file whose chunks all verified is reported [PASS] exactly
\* when the decompressed lengths add up to the declared nar_size and the
\* SHA-256 of the plaintexts, concatenated in chunk_index order, is the
\* digest the declared nar_hash names; otherwise it is reported [FAIL].
C3_PassIffSizeAndHashMatch ==
    (CdcReturned /\ chunks # <<>> /\ errors = <<>>) =>
        /\ Passed <=> /\ Len(sha256) = nar_size_db
                      /\ DigestDeclared(Sha256Hex(sha256), nar_hash_db)
        /\ Passed \/ Failed

\* C4: the chunks fed to the whole-object digest are fed in strictly
\* ascending chunk_index order, each row of the query at most once, and the
\* digest has consumed exactly the bytes counted in total_size.
C4_FoldedInAscendingIndexOrder ==
    /\ \A i, j \in 1..Len(folded) : i < j => folded[i] < folded[j]
    /\ Len(folded) <= chunk_i
    /\ \A i \in 1..Len(folded) : \E j \in 1..chunk_i : chunks[j] = folded[i]
    /\ total_size = Len(sha256)

\* Two chunks with the indexes 0 and 2 have both been fed to the digest.
C4_Witness ==
    /\ pc = "chunk_loop"
    /\ chunks = <<0, 2>>
    /\ folded = <<0, 2>>
    /\ Len(sha256) = 2

\* The chunk_index column of the rows is 0, 1, ..., total_chunks - 1.
Contiguous(chunk_rows, total_chunks) ==
    /\ Len(chunk_rows) = total_chunks
    /\ \A i \in 1..Len(chunk_rows) : chunk_rows[i] = i - 1

\* C5: a chunked nar_file whose chunk indexes are not exactly
\* 0 .. total_chunks - 1 (total_chunks = 3 with the indexes 0 and 2, say) has
\* no chunk read and is reported [FAIL].
C5_NonContiguousIndexesFail ==
    (queries = 1 /\ chunks # <<>> /\ ~Contiguous(chunks, nf.total_chunks)) =>
        /\ reads = 0
        /\ NarFileReported => Failed

\* total_chunks = 3, indexes 0 and 2: both chunks were read and the nar_file
\* was reported [PASS].
C5_GapPasses ==
    /\ CdcReturned
    /\ nf.total_chunks = 3
    /\ chunks = <<0, 2>>
    /\ reads = 2
    /\ Passed

\* C6: in verify_flat a length that differs from file_size is recorded with
\* the length got and the length wanted, and does not end the verification:
\* the SHA-256 is still compared, and an object that differs in both length
\* and digest is reported with both reasons.
C6_SizeMismatchDoesNotShortCircuit ==
    (FlatReturned /\ raw.found) =>
        /\ Len(raw.bytes) # file_size_db =>
              \E i \in 1..Len(errs) :
                  errs[i] = [kind |-> "file_size", got |-> Len(raw.bytes),
                             want |-> file_size_db]
        /\ ~DigestDeclared(Sha256Hex(raw.bytes), file_hash_db) =>
              \E i \in 1..Len(errs) :
                  /\ errs[i].kind = "file_hash"
                  /\ errs[i].got = Sha256Hex(raw.bytes)
        /\ (/\ Len(raw.bytes) # file_size_db
            /\ ~DigestDeclared(Sha256Hex(raw.bytes), file_hash_db)) =>
              /\ Len(errs) = 2
              /\ Len(out) = 2
              /\ Failed

\* An object of the wrong length and the wrong digest, reported with the
\* size reason and the hash reason.
C6_Witness ==
    /\ FlatReturned
    /\ raw.found
    /\ Len(raw.bytes) # file_size_db
    /\ ~DigestDeclared(Sha256Hex(raw.bytes), file_hash_db)
    /\ Len(errs) = 2
    /\ errs[1].kind = "file_size"
    /\ errs[2].kind = "file_hash"

\* C7: with chunking disabled a nar_file with total_chunks = 0 is reported
\* [PASS] exactly when its object exists at the derived key, the object's
\* length is the declared file_size and its SHA-256 is the digest the
\* declared file_hash names, in hex or in base-32.
C7_FlatPassIffObjectSizeHash ==
    FlatReturned =>
        /\ Passed <=> /\ raw.found
                      /\ Len(raw.bytes) = file_size_db
                      /\ DigestDeclared(Sha256Hex(raw.bytes), file_hash_db)
        /\ Passed \/ Failed

\* The nar_file bound to nf has a total_chunks that disagrees with the
\* chunking mode.
ModeDisagrees ==
    /\ nf.id # 0
    /\ \/ cdc_enabled /\ nf.total_chunks = 0
       \/ ~cdc_enabled /\ nf.total_chunks > 0

\* C8: a nar_file whose total_chunks disagrees with the chunking mode
\* (chunking enabled and total_chunks = 0, or chunking disabled and
\* total_chunks > 0) gets one structural [FAIL] line and one increment of
\* failures, and neither verify_flat nor verify_cdc runs for it: no storage
\* read, no chunk query, no digest.
C8_ModeMismatchIsStructuralFail ==
    /\ [](ModeDisagrees =>
            /\ pc = "nf_loop"
            /\ reads = 0 /\ queries = 0 /\ hashed = 0
            /\ out = <<Line(ni, nf, "FAIL",
                            [kind |-> IF cdc_enabled THEN "cdc_total_chunks_0"
                                      ELSE "flat_total_chunks"])>>)
    /\ [][(pc = "nf_loop" /\ nf_i' = nf_i + 1 /\ ModeDisagrees') =>
            (failures' = failures + 1 /\ passes' = passes)]_vars

\* Chunking is disabled and a nar_file with two chunks has been reported.
C8_Witness ==
    /\ NarFileReported
    /\ ~cdc_enabled
    /\ nf.total_chunks = 2
    /\ failures = 1
    /\ Failed

\* C9: a narinfo with no linked nar_file gets one [FAIL] line and one
\* increment of failures in the step in which the nar_files query returned
\* no row (a query that raises is another matter), the loop
\* moves to the next narinfo, and the nar_file loop and the verify functions
\* never run for it: no storage read, no chunk query, no digest.
C9_NoLinkedFileFailsAndScanContinues ==
    /\ [](pc \in {"nf_loop", "verify_flat", "verify_cdc", "chunk_loop"}
            => nar_files # <<>>)
    /\ [][(/\ pc = "ni_loop" /\ ni_i < Len(narinfos)
           /\ pc' # "traceback" /\ nar_files' = <<>>) =>
            /\ failures' = failures + 1
            /\ passes' = passes
            /\ out' = <<Line(ni', NoRow, "FAIL", [kind |-> "no_nar_file"])>>
            /\ ni'.id = narinfos[ni_i + 1]
            /\ ni_i' = ni_i + 1
            /\ pc' = "ni_loop"
            /\ reads' = 0 /\ queries' = 0 /\ hashed' = 0]_vars

\* The first of two narinfos had no nar_file: it has been reported and
\* counted, and the second narinfo is next.
C9_Witness ==
    /\ pc = "ni_loop"
    /\ Len(narinfos) = 2
    /\ ni_i = 1
    /\ ni.id = 1
    /\ nar_files = <<>>
    /\ failures = 1
    /\ out = <<Line(ni, NoRow, "FAIL", [kind |-> "no_nar_file"])>>

\* C10: with chunking enabled, a nar_file with total_chunks > 0 whose chunk
\* query returns no row is reported [FAIL] with that one reason; nothing is
\* read from storage and nothing is hashed.
C10_NoChunkRowsFailsWithoutReading ==
    (CdcReturned /\ chunks = <<>>) =>
        /\ cdc_enabled /\ nf.total_chunks > 0
        /\ out = <<Line(ni, nf, "FAIL", [kind |-> "no_chunks"])>>
        /\ reads = 0
        /\ hashed = 0
        /\ folded = <<>>

\* total_chunks = 2 and the chunk query returned nothing.
C10_Witness ==
    /\ CdcReturned
    /\ nf.total_chunks = 2
    /\ chunks = <<>>
    /\ Failed

\* C11: a nar_file one of whose chunks decompressed to a length other than
\* its declared size is never reported [PASS]: when verify_cdc returns, the
\* report for it is [FAIL] and failures has counted it.
C11_MisSizedChunkNeverPasses ==
    (CdcReturned /\ mis_sized # {}) =>
        /\ Failed
        /\ ~Passed
        /\ failures > 0

\* The first of two chunks had the wrong decompressed length and its declared
\* BLAKE3, the second chunk was in order, and the nar_file has been reported.
C11_Witness ==
    /\ CdcReturned
    /\ Len(chunks) = 2
    /\ mis_sized = {chunks[1]}
    /\ \A i \in 1..Len(errors) : errors[i].kind = "size"
    /\ Len(folded) = 2

\* The scan has run to its summary and the script has ended.
ScanCompleted == pc = "exit" /\ conn = "closed"

\* C12: once the scan completes the exit status is 0 if and only if the
\* failure counter is 0, and 1 otherwise; the counter moves by one with
\* every report that is a [FAIL] and stays with every [PASS].
C12_ExitStatusZeroIffNoFailure ==
    /\ [](ScanCompleted =>
            /\ exit_code \in {0, 1}
            /\ exit_code = 0 <=> failures = 0)
    /\ [][(out' # out /\ out' # <<>>) =>
            failures' = failures + (IF Failed' THEN 1 ELSE 0)]_vars

\* A completed scan in which one entry passed and one failed: status 1.
C12_Witness ==
    /\ ScanCompleted
    /\ passes = 1
    /\ failures = 1
    /\ exit_code = 1

\* C13: a failure never ends the scan.  The step that counts a failure stays
\* in the loops; the script ends through its summary only once the narinfo
\* loop has taken every selected narinfo; and in a run in which no uncaught
\* exception is raised, every counted failure is followed by the summary,
\* with every selected narinfo taken.
C13_FailuresNeverAbortTheScan ==
    /\ [][failures' > failures => pc' \in {"ni_loop", "nf_loop"}]_vars
    /\ [](ScanCompleted => ni_i = Len(narinfos))
    /\ [](pc # "traceback") =>
          ((failures > 0 /\ pc \in {"ni_loop", "nf_loop"})
              ~> (ScanCompleted /\ ni_i = Len(narinfos)))

\* The first of three narinfos failed and the scan has completed with all
\* three taken.
C13_Witness ==
    /\ ScanCompleted
    /\ Len(narinfos) = 3
    /\ ni_i = 3
    /\ failures >= 1
    /\ passes >= 1

\* The list the last verify_* call returned has an entry of this kind.
Reason(kind) == \E i \in 1..Len(errs) : errs[i].kind = kind

\* C14: hash_matches is true exactly when the declared value, its sha256:
\* prefix stripped, is the computed hex digest or the base-32 encoding of
\* it: verify_flat and verify_cdc report a hash mismatch for a computed
\* digest h exactly when the declared hash is neither h nor the base-32
\* form of h.
C14_HashMatchesIffHexOrBase32 ==
    /\ (FlatReturned /\ raw.found) =>
          (~Reason("file_hash") <=>
               \/ strip_prefix(file_hash_db) = Sha256Hex(raw.bytes)
               \/ strip_prefix(file_hash_db) = NixBase32(Sha256Hex(raw.bytes)))
    /\ (CdcReturned /\ chunks # <<>> /\ errors = <<>>) =>
          (~Reason("nar_hash") <=>
               \/ strip_prefix(nar_hash_db) = Sha256Hex(sha256)
               \/ strip_prefix(nar_hash_db) = NixBase32(Sha256Hex(sha256)))

\* A [FAIL] line of the last report gives a hash mismatch as its reason.
HashMismatchReported ==
    \E i \in 1..Len(out) :
        out[i].verdict = "FAIL" /\ out[i].reason.kind \in {"file_hash", "nar_hash"}

\* C15: when hash_matches needed the base-32 form and the conversion failed
\* (to_nix32 returned None), the nar_file is not reported as a hash
\* mismatch: no [FAIL] line gives one as its reason, and the report marks the
\* entry as unverifiable, a verdict of its own.
C15_ConversionFailureIsNotAMismatch ==
    (NarFileReported /\ nix32_res = None) =>
        /\ ~HashMismatchReported
        /\ \E i \in 1..Len(out) : out[i].verdict = "UNVERIFIABLE"

\* C16: storage keys have the form namespace / hash[0] / hash[0:2] /
\* filename.  The key verify_flat reads is store/nar/.../<hash>.nar, with
\* .<compression> appended only for a compression that is not NULL, not
\* empty and not "none"; the key verify_cdc reports for a missing chunk is
\* store/chunk/.../<hash>.
C16_KeysAreShardedByHashPrefix ==
    /\ FlatReturned =>
          key = <<"store", "nar", <<nf.hash[1]>>, <<nf.hash[1], nf.hash[2]>>,
                  nf.hash \o <<".", "n", "a", "r">> \o
                  (IF nf.compression \in {None, <<>>, <<"n", "o", "n", "e">>}
                   THEN <<>> ELSE <<".">> \o nf.compression)>>
    /\ (pc = "chunk_loop" /\ chunk_i > 0 /\ ~compressed.found) =>
          errors[Len(errors)].key =
              <<"store", "chunk", <<chunk.hash[1]>>,
                <<chunk.hash[1], chunk.hash[2]>>, chunk.hash>>

\* A nar_file whose compression is "none" was read at <hash>.nar.
C16_Witness ==
    /\ FlatReturned
    /\ nf.compression = <<"n", "o", "n", "e">>
    /\ key[5] = nf.hash \o <<".", "n", "a", "r">>

\* C17: the verifier is read-only.  In every reachable state, whatever the
\* entries turned out to be and however the run ended, the run has modified
\* no catalog table and no storage object.
C17_CatalogAndStorageAreOnlyRead ==
    written = {}

\* A run that queried the catalog, read objects from storage, reported a
\* pass and a failure and has ended.
C17_Witness ==
    /\ pc \in {"exit", "traceback"}
    /\ conn = "closed"
    /\ rows >= 3
    /\ passes >= 1
    /\ failures >= 1
    /\ written = {}

\* The script has ended, by sys.exit, by falling off main or by a traceback.
Ended == pc \in {"exit", "traceback"}

\* C18: the catalog connection and the object-store client are acquired once
\* at startup and released on every exit path.  The run creates at most one
\* S3 client, and has it before the scan starts when the storage is S3; the
\* connection is open for as long as the scan runs; and a run that opened
\* the connection has closed it when it has ended, by its summary or by an
\* exception.
C18_HandlesAcquiredOnceReleasedAtExit ==
    /\ s3_clients <= 1
    /\ (storage = "s3" /\ pc \in {"ni_loop", "nf_loop"}) => s3_clients = 1
    /\ pc \in {"fetch_narinfos", "ni_loop", "nf_loop", "verify_flat",
                "verify_cdc", "chunk_loop"} => conn = "open"
    /\ (Ended /\ conn # "none") => conn = "closed"

\* Two nar_files have been verified on S3 storage, each with a client of its
\* own.
C18_ClientPerNarFile ==
    /\ storage = "s3"
    /\ NarFileReported
    /\ nf_i = 2
    /\ s3_clients = 2

\* The part of C18 about the catalog connection alone.
C18_ConnectionPart ==
    /\ pc \in {"fetch_narinfos", "ni_loop", "nf_loop", "verify_flat",
                "verify_cdc", "chunk_loop"} => conn = "open"
    /\ (Ended /\ conn # "none") => conn = "closed"

\* C19: a descriptor that is absent or not JSON, an unknown db kind and a
\* catalog that cannot be reached are fatal.  A run that ended without a
\* catalog connection ended with status 1, fetched no row, read no object
\* and reported no entry; and no row is fetched, no object read and no entry
\* reported before the descriptor is loaded and the connection is open.
C19_FatalStartupErrorsAbortTheRun ==
    /\ (Ended /\ conn = "none") =>
          /\ exit_code = 1
          /\ rows = 0 /\ narinfos = <<>>
          /\ reads = 0 /\ queries = 0
          /\ out = <<>> /\ passes = 0 /\ failures = 0
    /\ pc = "load_state" => conn = "none"
    /\ (rows > 0 \/ reads > 0 \/ out # <<>> \/ passes + failures > 0)
          => conn # "none"

\* The descriptor was loaded, with chunking enabled, and the catalog could
\* not be reached: the script has ended with a traceback.
C19_Witness ==
    /\ pc = "traceback"
    /\ conn = "none"
    /\ cdc_enabled
    /\ exit_code = 1

\* C20, as the specification states it: a nar_file with total_chunks = 0 is
\* reported [PASS] without more ado, its narinfo's nar_size being 0 (the
\* nar_size column is one the script has not looked at when it reports such
\* a nar_file, so it may be 0 as well as anything else).
C20_ZeroChunksPassVacuously ==
    (NarFileReported /\ nf.total_chunks = 0) => Passed

\* C20, amended: a nar_file with total_chunks = 0 is never passed vacuously,
\* whatever its nar_size.  With chunking enabled it is reported [FAIL] for
\* the structural reason, with no chunk query, no read and no digest; with
\* chunking disabled it is verified as a flat file, and is reported [PASS]
\* only if its object was read and has the declared file_size and file_hash.
C20_ZeroChunksNeverPassVacuously ==
    (NarFileReported /\ nf.total_chunks = 0) =>
        IF cdc_enabled
        THEN /\ out = <<Line(ni, nf, "FAIL", [kind |-> "cdc_total_chunks_0"])>>
             /\ queries = 0 /\ reads = 0 /\ hashed = 0
        ELSE /\ reads = 1
             /\ Passed => /\ raw.found
                          /\ Len(raw.bytes) = file_size_db
                          /\ DigestDeclared(Sha256Hex(raw.bytes), file_hash_db)
                          /\ hashed = 1

\* Chunking is enabled and a nar_file with total_chunks = 0 has been
\* reported [FAIL].
C20_Witness ==
    /\ NarFileReported
    /\ cdc_enabled
    /\ nf.total_chunks = 0
    /\ Failed
    /\ failures = 1

\* The narinfo loop has its list: the query and the --limit slice are done.
Selected == pc \notin {"load_state", "connect_db", "fetch_narinfos"} /\ conn # "none"

\* C21: with --limit N, for any integer N (0 included), at most N narinfos
\* are selected and taken by the loop, and they are the first of the query
\* result in id order; with --hash H every narinfo the loop takes has the
\* hash H.
C21_LimitCapsAndHashFilters ==
    /\ (Selected /\ limit.given) =>
          /\ Len(narinfos) <= limit.n
          /\ ni_i <= limit.n
          /\ \A i \in 1..Len(narinfos) : filter_hash = None => narinfos[i] = i
    /\ (filter_hash # None /\ ni.id # 0) => ni.hash = filter_hash

\* --limit 0 on a catalog of two narinfos: both were taken by the loop.
C21_LimitZeroTakesAll ==
    /\ limit = [given |-> TRUE, n |-> 0]
    /\ filter_hash = None
    /\ pc = "exit"
    /\ Len(narinfos) = 2
    /\ ni_i = 2

\* C22: every nar_file of every narinfo gets exactly one result line, which
\* names the narinfo and the nar_file, says PASS or FAIL and, for a FAIL,
\* carries all the reasons verify_flat or verify_cdc returned.
C22_OneLinePerCombination ==
    NarFileReported =>
        /\ Len(out) = 1
        /\ out[1].ni = ni.id /\ out[1].nf = nf.id
        /\ out[1].verdict \in {"PASS", "FAIL"}
        /\ errs = <<>> <=> out[1].verdict = "PASS"

\* A flat file of the wrong length and the wrong digest: two [FAIL] lines,
\* one per reason, for the one nar_file.
C22_LinePerReason ==
    /\ FlatReturned
    /\ Len(errs) = 2
    /\ Len(out) = 2
    /\ out[1].nf = nf.id /\ out[2].nf = nf.id
    /\ out[1].verdict = "FAIL" /\ out[2].verdict = "FAIL"

\* One of the checks of the chunk loop fails for this row and the result of
\* reading its object.
ChunkCheckFails(row, object) ==
    \/ ~object.found
    \/ Len(object.bytes) # row.compressed_size
    \/ ~ZstdValid(object.bytes)
    \/ Len(ZstdDecompress(object.bytes)) # row.size
    \/ Blake3Hex(ZstdDecompress(object.bytes)) # row.hash

\* C23: no error is suppressed into a [PASS].  A flat nar_file is reported
\* [PASS] only if its object was read, has the declared file_size and the
\* declared file_hash.  A chunked nar_file is reported [PASS] only if the
\* chunk loop took every row, recorded no error and fed every chunk to the
\* digest, and the byte count is the declared nar_size and the digest the
\* declared nar_hash; every pass of the chunk loop in which a check fails
\* adds to the error list, and the list only grows while the loop runs.  A
\* nar_file whose total_chunks disagrees with the chunking mode is never
\* passed.  And the SUCCESS summary is printed only by a run that printed
\* no [FAIL] line.
C23_NoErrorBecomesASilentPass ==
    /\ []((FlatReturned /\ Passed) =>
            /\ raw.found
            /\ Len(raw.bytes) = file_size_db
            /\ DigestDeclared(Sha256Hex(raw.bytes), file_hash_db))
    /\ []((CdcReturned /\ Passed) =>
            /\ errors = <<>>
            /\ chunk_i = Len(chunks)
            /\ Len(folded) = Len(chunks)
            /\ mis_sized = {}
            /\ total_size = nar_size_db
            /\ DigestDeclared(Sha256Hex(sha256), nar_hash_db))
    /\ [][(/\ pc = "chunk_loop" /\ chunk_i' = chunk_i + 1
           /\ ChunkCheckFails(chunk', compressed'))
              => Len(errors') > Len(errors)]_vars
    /\ [][(pc = "chunk_loop" /\ pc' \in {"chunk_loop", "nf_loop"})
              => SubSeq(errors', 1, Len(errors)) = errors]_vars
    /\ []((NarFileReported /\ Passed) => ~ModeDisagrees)
    /\ [](summary.kind = "SUCCESS" => (failed_units = 0 /\ exit_code = 0))
    /\ []((Ended /\ failed_units > 0) => summary.kind # "SUCCESS")

\* A run in which one nar_file was reported [FAIL] and the next one, a
\* chunked one, verified and was reported [PASS].
C23_Witness ==
    /\ CdcReturned
    /\ Passed
    /\ Len(chunks) = 1
    /\ folded = chunks
    /\ failed_units = 1

\* What main gets back for the nar_file bound to nf, computed from that
\* nar_file alone: its row, the columns of its narinfo, the chunk rows and
\* objects read for it, and what nix-hash answered for its digest.
EntryOutcome ==
    IF ModeDisagrees THEN <<>>
    ELSE IF ~cdc_enabled
    THEN verify_flat(nar_file_key(nf.hash, IF Truthy(nf.compression)
                                           THEN nf.compression ELSE <<>>),
                     raw, file_size_db, file_hash_db, nix32_res)
    ELSE IF chunks = <<>> THEN <<[kind |-> "no_chunks"]>>
    ELSE IF errors # <<>> THEN errors
    ELSE WholeNarErrors(Len(sha256), Sha256Hex(sha256), nar_size_db,
                        nar_hash_db, nix32_res)

\* C24: the verification of an entry is independent of the other entries
\* and repeatable.  Each call of verify_flat or verify_cdc starts with
\* fresh locals (no error, no digest input, no byte counted, nothing read),
\* whatever was verified before; each narinfo starts with none of its
\* columns consulted; and the result reported for a nar_file is a function
\* of that nar_file's own rows and objects: it does not depend on the
\* failure counter, on the position in the scan or on earlier reports, and
\* the [PASS] or [FAIL] lines are that result and nothing else.
C24_EntriesAreIndependent ==
    /\ pc \in {"verify_flat", "verify_cdc"} =>
          /\ errors = <<>> /\ sha256 = <<>> /\ total_size = 0
          /\ folded = <<>> /\ mis_sized = {} /\ chunk_i = 0
          /\ chunks = <<>> /\ raw = NoRead /\ compressed = NoRead
          /\ reads = 0 /\ queries = 0 /\ hashed = 0
          /\ nix32_res = NotCalled
    /\ (pc = "nf_loop" /\ nf_i = 0) =>
          /\ file_hash_db = Unread /\ nar_hash_db = Unread
          /\ nar_size_db = -1
    /\ pc = "chunk_loop" =>
          \A i \in 1..Len(errors) :
              \E r \in ChunkRows(chunks[1]) : errors[i].chunk = Take(r.hash, 12)
    /\ NarFileReported =>
          /\ errs = EntryOutcome
          /\ out = IF ModeDisagrees
                   THEN <<Line(ni, nf, "FAIL",
                               [kind |-> IF cdc_enabled THEN "cdc_total_chunks_0"
                                         ELSE "flat_total_chunks"])>>
                   ELSE IF EntryOutcome = <<>>
                   THEN <<Line(ni, nf, "PASS", [kind |-> "none"])>>
                   ELSE [i \in 1..Len(EntryOutcome) |->
                            Line(ni, nf, "FAIL", EntryOutcome[i])]

\* The second nar_file of a narinfo is about to be verified after the first
\* one failed on a missing chunk: verify_cdc starts with an empty error
\* list.
C24_Witness ==
    /\ pc = "verify_cdc"
    /\ nf_i = 2
    /\ failures = 1
    /\ errs # <<>>
    /\ errs[1].kind = "missing"
    /\ errors = <<>>

\* C25: the nar_files of one narinfo are verified and reported one by one,
\* and a failure of one never skips another.  While rows remain the only
\* step of the nar_file loop is to take the next row, whatever was reported
\* before; a verification returns to the same loop with the same rows; the
\* loop is left only when every row has been taken; and the lines of every
\* report name the narinfo and the nar_file just taken.
C25_SiblingsAreVerifiedOnTheirOwn ==
    /\ [][(pc = "nf_loop" /\ nf_i < Len(nar_files)) =>
            /\ nf_i' = nf_i + 1
            /\ nf'.id = nar_files[nf_i + 1]
            /\ pc' \in {"nf_loop", "verify_flat", "verify_cdc"}]_vars
    /\ [][(pc \in {"verify_flat", "verify_cdc", "chunk_loop"} /\ pc' # "traceback") =>
            /\ pc' \in {"chunk_loop", "nf_loop"}
            /\ nf_i' = nf_i /\ nar_files' = nar_files /\ nf'.id = nf.id]_vars
    /\ [][(pc = "nf_loop" /\ pc' = "ni_loop") => nf_i = Len(nar_files)]_vars
    /\ [](NarFileReported =>
            /\ out # <<>>
            /\ \A i \in 1..Len(out) :
                  out[i].ni = ni.id /\ out[i].nf = nar_files[nf_i])

\* The first of two nar_files of a narinfo was reported [FAIL] and the
\* second has been verified and reported [PASS].
C25_Witness ==
    /\ NarFileReported
    /\ Len(nar_files) = 2
    /\ nf_i = 2
    /\ failures = 1
    /\ Passed

\* C26: in verify_flat, when the object at the flat key cannot be read, the
\* nar_file is reported [FAIL] with exactly one reason, which names the key
\* that was looked up; the length is not compared, no digest is computed
\* and nix-hash is not called.
C26_MissingFlatObjectIsTheOnlyReason ==
    (FlatReturned /\ ~raw.found) =>
        /\ errs = <<[kind |-> "missing", key |-> key]>>
        /\ key[5] = nf.hash \o <<".", "n", "a", "r">> \o
                    (IF nf.compression \in {None, <<>>, <<"n", "o", "n", "e">>}
                     THEN <<>> ELSE <<".">> \o nf.compression)
        /\ out = <<Line(ni, nf, "FAIL", errs[1])>>
        /\ \A i \in 1..Len(out) :
              out[i].reason.kind \notin {"file_size", "file_hash"}
        /\ hashed = 0
        /\ nix32_res = NotCalled

\* An xz-compressed nar_file whose object is absent has been reported with
\* the one reason.
C26_Witness ==
    /\ FlatReturned
    /\ ~raw.found
    /\ nf.compression = <<"x", "z">>
    /\ Len(out) = 1
    /\ out[1].reason.kind = "missing"
    /\ out[1].reason.key = key

\* The step is one pass of the chunk loop.
ChunkPass == pc = "chunk_loop" /\ chunk_i' = chunk_i + 1

\* The pass appended an error of this kind.
Added(kind) ==
    \E i \in (Len(errors) + 1)..Len(errors') : errors'[i].kind = kind

\* The pass left the running digest and the byte count alone.
NotFolded ==
    /\ folded' = folded /\ sha256' = sha256 /\ total_size' = total_size
    /\ hashed' = hashed
    /\ ~Added("size") /\ ~Added("blake3")

\* The pass fed the plaintext of the chunk to the digest and the byte count,
\* and compared both lengths with the declared ones.
FoldedAndSized ==
    LET data == ZstdDecompress(compressed'.bytes)
    IN  /\ folded' = Append(folded, chunk'.chunk_index)
        /\ sha256' = sha256 \o data
        /\ total_size' = total_size + Len(data)
        /\ Added("compressed_size") <=> Len(compressed'.bytes) # chunk'.compressed_size
        /\ Added("size") <=> Len(data) # chunk'.size
        /\ Added("blake3") <=> Blake3Hex(data) # chunk'.hash

\* C27, as stated: a chunk that cannot be read or cannot be decompressed
\* adds exactly one error, has no later check evaluated and is not folded;
\* a chunk that is read and decompressed is always folded and has both of
\* its size checks evaluated.
C27_UnusableChunkAddsOneError ==
    [][ChunkPass =>
         /\ (~compressed'.found \/ ~ZstdValid(compressed'.bytes)) =>
               /\ Len(errors') = Len(errors) + 1
               /\ NotFolded
         /\ (compressed'.found /\ ZstdValid(compressed'.bytes)) => FoldedAndSized]_vars

\* C27, amended: a chunk that cannot be read adds exactly one error, the
\* missing key; a chunk that is read but cannot be decompressed adds the
\* decompression error, after a compressed-size error if its length is not
\* the declared compressed_size (one error or two); neither has a later
\* check evaluated, neither is folded.  A chunk that is read and
\* decompressed is always folded and has both size checks evaluated.
C27_UnusableChunkIsNotFolded ==
    [][ChunkPass =>
         /\ ~compressed'.found =>
               /\ Len(errors') = Len(errors) + 1
               /\ Added("missing")
               /\ NotFolded
         /\ (compressed'.found /\ ~ZstdValid(compressed'.bytes)) =>
               /\ Len(errors') = Len(errors) +
                     (IF Len(compressed'.bytes) # chunk'.compressed_size
                      THEN 2 ELSE 1)
               /\ errors'[Len(errors')].kind = "zstd"
               /\ Added("compressed_size") <=>
                     Len(compressed'.bytes) # chunk'.compressed_size
               /\ NotFolded
         /\ (compressed'.found /\ ZstdValid(compressed'.bytes)) => FoldedAndSized]_vars

\* A chunk whose object has the wrong length and is no zstd stream has been
\* taken: two errors, nothing folded.
C27_Witness ==
    /\ pc = "chunk_loop"
    /\ chunk_i = 1
    /\ compressed.found
    /\ ~ZstdValid(compressed.bytes)
    /\ Len(compressed.bytes) # chunk.compressed_size
    /\ Len(errors) = 2
    /\ errors[1].kind = "compressed_size"
    /\ errors[2].kind = "zstd"
    /\ folded = <<>>

\* C28: failures counts failing units, not reasons.  It is always the
\* number of reports printed so far that were [FAIL] (one per failing
\* nar_file, one per narinfo with no nar_file); no step lowers it or raises
\* it by more than one, and a report of several reasons raises it by one;
\* and the count the FAILURE summary prints is that number.
C28_FailuresCountsFailingUnits ==
    /\ [](failures = failed_units)
    /\ [][failures' \in {failures, failures + 1}]_vars
    /\ [][(out' # out /\ Len(out') > 1) => failures' = failures + 1]_vars
    /\ [][(pc = "ni_loop" /\ pc' = "ni_loop" /\ ni_i' = ni_i + 1)
              => failures' = failures + 1]_vars
    /\ [](summary.kind = "FAILURE" =>
            /\ summary.errors = failed_units
            /\ summary.errors > 0
            /\ summary.total = Len(narinfos))

\* The scan of one narinfo with two failing nar_files has completed: the
\* summary counts 2 errors across 1 narinfo.
C28_Witness ==
    /\ ScanCompleted
    /\ summary = [kind |-> "FAILURE", errors |-> 2, total |-> 1]
    /\ Len(nar_files) = 2
    /\ passes = 0

\* The narinfos query has been made (it did not raise) and had nothing to
\* return: the table is empty, or --hash names a hash that none of its rows
\* has.
NothingSelected ==
    /\ Selected
    /\ pc # "traceback"
    /\ \/ narinfo_rows = 0
       \/ /\ Truthy(filter_hash)
          /\ \A id \in 1..narinfo_rows : NarInfoHash(id) # filter_hash

\* C29: a run that selects no narinfo (empty table, or --hash matching no
\* row) verifies nothing: the loop has no row, no nar_file is queried, no
\* object is read, nothing is hashed and nothing reported; its next step is
\* the summary, which is SUCCESS for 0 narinfos with exit status 0.
C29_EmptySelectionSucceeds ==
    /\ [](NothingSelected =>
            /\ narinfos = <<>>
            /\ pc \in {"ni_loop", "exit"}
            /\ ni = NoRow /\ nf = NoRow /\ nar_files = <<>>
            /\ rows = 0
            /\ reads = 0 /\ queries = 0 /\ hashed = 0 /\ s3_clients = 0
            /\ out = <<>> /\ passes = 0 /\ failed_units = 0
            /\ pc = "exit" =>
                  /\ summary = [kind |-> "SUCCESS", errors |-> 0, total |-> 0]
                  /\ exit_code = 0
                  /\ conn = "closed")
    /\ [][(NothingSelected /\ pc = "ni_loop") => pc' = "exit"]_vars

\* The table has one narinfo, --hash names another hash, and the run has
\* ended with the SUCCESS summary.
C29_Witness ==
    /\ pc = "exit"
    /\ filter_hash = NarInfoHash(2)
    /\ narinfo_rows = 1
    /\ narinfos = <<>>
    /\ summary.kind = "SUCCESS"
    /\ exit_code = 0

\* C30: when a chunked nar_file is reported [PASS], with the message that
\* total_chunks chunk(s) were verified, the chunk rows read, checked and fed
\* to the digest for it are as many as its total_chunks.
C30_PassCountsDeclaredChunks ==
    (CdcReturned /\ Passed) =>
        /\ Len(chunks) = nf.total_chunks
        /\ reads = nf.total_chunks
        /\ Len(folded) = nf.total_chunks

\* total_chunks = 2 and the chunk query returned one row: one chunk was read
\* and folded, and the nar_file was reported [PASS] for 2 chunks.
C30_PassWithFewerChunks ==
    /\ CdcReturned
    /\ Passed
    /\ nf.total_chunks = 2
    /\ Len(chunks) = 1
    /\ reads = 1
    /\ Len(folded) = 1

====
